---- MODULE Spec2Model ----
(***************************************************************************)
(* Rayleigh Sky Simulator: the App component (sun-angle slider, phase      *)
(* label, explanation request), the PhysicsCharts panel (effective angle,  *)
(* clamp, path-length factor), the SkySimulation canvas effect and the     *)
(* explainSkyPhysics client.                                               *)
(*                                                                         *)
(* Units.  Angles are integers counting half degrees (the slider step is   *)
(* 0.5), so 180 stands for 90 degrees and 360 for 180 degrees.  Sines are  *)
(* integers in millionths, path-length factors in thousandths.  The sunset *)
(* factor is the exact numerator of a fraction over SunsetDen.  Label      *)
(* coordinates are in twentieths of a CSS pixel (0.85 = 17/20, 0.4 = 8/20).*)
(***************************************************************************)
EXTENDS Integers, Sequences, FiniteSets

VARIABLES
  sunAngle,        \* App state: useState(45), in half degrees
  explanation,     \* App state: useState("")
  isLoading,       \* App state: useState(false)
  inflight,        \* calls of explainSkyPhysics whose continuation has not run yet
  explanationFor,  \* the sunAngle captured by the call whose text is in explanation
  lastResult,      \* how the most recently settled explainSkyPhysics call ended
  lastEvent,       \* the handler that ran last
  apiKey,          \* process.env.API_KEY is set
  view,            \* what App and PhysicsCharts rendered from sunAngle
  surface,         \* "ok", "missing" (canvasRef.current is null), "noctx" (getContext gives null)
  rect,            \* canvas.getBoundingClientRect(): CSS width and height
  dpr,             \* window.devicePixelRatio (0 stands for absent)
  canvas,          \* the canvas backing store: canvas.width, canvas.height
  frame,           \* the last frame drawn on the canvas
  effectLog        \* what the last invocation of the canvas effect saw and did

vars == <<sunAngle, explanation, isLoading, inflight, explanationFor, lastResult,
          lastEvent, apiKey, view, surface, rect, dpr, canvas, frame, effectLog>>


(***************************************************************************)
(* Bounds of the model                                                     *)
(***************************************************************************)
\* requests that may be outstanding at once
MaxPending == 2
\* half degrees beyond either end of the slider range fed to the pure functions
ExtraRange == 60

(***************************************************************************)
(* Program constants                                                       *)
(***************************************************************************)
SliderMin == 0
SliderMax == 360
InitialAngle == 90
RightAngle == 180
StraightAngle == 360
ClampFloor == 10
SunColorDist == 140
DrawCalls == 22
\* the value that stands for the IEEE infinity of 1 / 0
Infinity == 2147483647
\* scales of the fixed-point representation
SineScale == 1000 * 1000
PathScale == 10 * 100
SunsetDen == RightAngle * RightAngle * RightAngle
\* a canvas element without width and height attributes is 300 by 150
DefaultCanvas == [width |-> 300, height |-> 150]

SliderAngles == SliderMin..SliderMax
ExtAngles == (SliderMin - ExtraRange)..(SliderMax + ExtraRange)
\* the slider positions the interactive specifications move between
UIAngles == {0, 10, 90, 180, 350}

\* bounding rectangles of the canvas element (CSS pixels); the class list
\* gives height 256 below the md breakpoint and 384 above it
VisibleSizes == { [width |-> 320, height |-> 256], [width |-> 640, height |-> 256],
                  [width |-> 736, height |-> 384], [width |-> 992, height |-> 384] }
Sizes == VisibleSizes \cup { [width |-> 0, height |-> 0], [width |-> 0, height |-> 256] }
Surfaces == {"ok", "missing", "noctx"}

Max(a, b) == IF a >= b THEN a ELSE b
Min(a, b) == IF a <= b THEN a ELSE b
Abs(a) == IF a < 0 THEN -a ELSE a

(***************************************************************************)
(* Math.sin, tabulated in millionths for 0, 0.5, ..., 90 degrees and       *)
(* extended by the symmetries of the sine.                                 *)
(***************************************************************************)
SinTable ==
  << 0, 8727, 17452, 26177, 34899, 43619, 52336, 61049, 69756, 78459,
     87156, 95846, 104528, 113203, 121869, 130526, 139173, 147809, 156434, 165048,
     173648, 182236, 190809, 199368, 207912, 216440, 224951, 233445, 241922, 250380,
     258819, 267238, 275637, 284015, 292372, 300706, 309017, 317305, 325568, 333807,
     342020, 350207, 358368, 366501, 374607, 382683, 390731, 398749, 406737, 414693,
     422618, 430511, 438371, 446198, 453990, 461749, 469472, 477159, 484810, 492424,
     500000, 507538, 515038, 522499, 529919, 537300, 544639, 551937, 559193, 566406,
     573576, 580703, 587785, 594823, 601815, 608761, 615661, 622515, 629320, 636078,
     642788, 649448, 656059, 662620, 669131, 675590, 681998, 688355, 694658, 700909,
     707107, 713250, 719340, 725374, 731354, 737277, 743145, 748956, 754710, 760406,
     766044, 771625, 777146, 782608, 788011, 793353, 798636, 803857, 809017, 814116,
     819152, 824126, 829038, 833886, 838671, 843391, 848048, 852640, 857167, 861629,
     866025, 870356, 874620, 878817, 882948, 887011, 891007, 894934, 898794, 902585,
     906308, 909961, 913545, 917060, 920505, 923880, 927184, 930418, 933580, 936672,
     939693, 942641, 945519, 948324, 951057, 953717, 956305, 958820, 961262, 963630,
     965926, 968148, 970296, 972370, 974370, 976296, 978148, 979925, 981627, 983255,
     984808, 986286, 987688, 989016, 990268, 991445, 992546, 993572, 994522, 995396,
     996195, 996917, 997564, 998135, 998630, 999048, 999391, 999657, 999848, 999962,
     1000000 >>

Sin(h) ==
  LET m == h % (2 * StraightAngle) IN
    IF m <= RightAngle THEN SinTable[m + 1]
    ELSE IF m <= StraightAngle THEN SinTable[StraightAngle - m + 1]
    ELSE IF m <= StraightAngle + RightAngle THEN -SinTable[m - StraightAngle + 1]
    ELSE -SinTable[2 * StraightAngle - m + 1]

\* 1 / x for x a sine in millionths, in thousandths; 1 / 0 is Infinity
Reciprocal(s) ==
  IF s = 0 THEN Infinity ELSE (SineScale * PathScale) \div s

(***************************************************************************)
(* PhysicsCharts: effectiveAngle, clampedAngle, pathLength                 *)
(***************************************************************************)
\* variant: the afternoon branch subtracts 90 instead of reflecting about 180
EffectiveAngleShifted(a) == IF a > RightAngle THEN a - RightAngle ELSE a

EffectiveAngle(a) == IF a > RightAngle THEN StraightAngle - a ELSE a

\* variant: the 5-degree floor left out
ClampedAngleNoFloor(a) == EffectiveAngle(a)

ClampedAngle(a) == Max(EffectiveAngle(a), ClampFloor)

PathLength(a) == Reciprocal(Sin(ClampedAngle(a)))

(***************************************************************************)
(* App.fetchExplanation: its own copy of the path-length computation       *)
(***************************************************************************)
FetchPathLength(a) ==
  LET effectiveAngle == IF a > RightAngle THEN StraightAngle - a ELSE a
      clampedAngle == Max(effectiveAngle, ClampFloor)
  IN  Reciprocal(Sin(clampedAngle))

(***************************************************************************)
(* App.getPhaseLabel                                                       *)
(***************************************************************************)
\* variant: the boundaries compared with <= instead of <
GetPhaseLabelInclusive(angle) ==
  IF angle <= 40 THEN "Sunrise"
  ELSE IF angle <= 140 THEN "Morning"
  ELSE IF angle <= 220 THEN "Midday"
  ELSE IF angle <= 320 THEN "Afternoon"
  ELSE "Sunset"

GetPhaseLabel(angle) ==
  IF angle < 40 THEN "Sunrise"
  ELSE IF angle < 140 THEN "Morning"
  ELSE IF angle < 220 THEN "Midday"
  ELSE IF angle < 320 THEN "Afternoon"
  ELSE "Sunset"

(***************************************************************************)
(* explainSkyPhysics: the time of day written into the prompt             *)
(***************************************************************************)
TimeOfDay(a) ==
  IF a < 40 THEN "Sunrise"
  ELSE IF a > 320 THEN "Sunset"
  ELSE "Midday"

\* what App and PhysicsCharts show for a sun angle
RenderView(a) ==
  [ phase          |-> GetPhaseLabel(a),
    effectiveAngle |-> EffectiveAngle(a),
    clampedAngle   |-> ClampedAngle(a),
    pathLength     |-> PathLength(a) ]

(***************************************************************************)
(* SkySimulation effect: colour and geometry of a frame                    *)
(***************************************************************************)
\* variant: Math.abs left out
DistFromNoonSigned(a) == a - RightAngle

DistFromNoon(a) == Abs(a - RightAngle)

\* min(1, (distFromNoon / 90)^3) as a numerator over SunsetDen = 180^3
SunsetFactor(a) ==
  LET d == DistFromNoon(a) IN Min(SunsetDen, d * d * d)

SunColor(a) == IF DistFromNoon(a) > SunColorDist THEN "#ff4500" ELSE "#ffff00"

\* cy - orbitRadius - 30 with cy = height * 0.85 and orbitRadius = width * 0.4,
\* in twentieths of a pixel
LabelY(width, height) == 17 * height - 8 * width - 600

Frame(a, width, height) ==
  [ drawn        |-> TRUE,
    angle        |-> a,
    width        |-> width,
    height       |-> height,
    sunsetFactor |-> SunsetFactor(a),
    sunColor     |-> SunColor(a),
    labelY       |-> LabelY(width, height) ]

NoFrame ==
  [ drawn |-> FALSE, angle |-> 0, width |-> 0, height |-> 0,
    sunsetFactor |-> 0, sunColor |-> "", labelY |-> 0 ]

DevicePixelRatio == IF dpr = 0 THEN 1 ELSE dpr

(***************************************************************************)
(* SkySimulation: the effect of useEffect(..., [sunAngle])                 *)
(***************************************************************************)
\* one invocation of the effect for sun angle a, on surface surf with bounding
\* rectangle r and pixel ratio ratio; oldCanvas and oldFrame are what it finds
SkyEffect(a, surf, r, ratio, oldCanvas, oldFrame) ==
  IF surf = "missing" \/ surf = "noctx"
  THEN [ canvas |-> oldCanvas, frame |-> oldFrame,
         log |-> [surface |-> surf, width |-> r.width, height |-> r.height, calls |-> 0] ]
  ELSE [ canvas |-> [width |-> r.width * ratio, height |-> r.height * ratio],
         frame  |-> Frame(a, r.width, r.height),
         log |-> [surface |-> surf, width |-> r.width, height |-> r.height,
                  calls |-> DrawCalls] ]

RunEffect(a) ==
  LET e == SkyEffect(a, surface, rect, DevicePixelRatio, canvas, frame) IN
    /\ canvas' = e.canvas
    /\ frame' = e.frame
    /\ effectLog' = e.log

(***************************************************************************)
(* explainSkyPhysics                                                       *)
(***************************************************************************)
OfflineModeText ==
  "Simulation is running in offline mode. AI explanations require a valid API_KEY in the environment variables."
EmptyText == "Unable to generate explanation at the moment."
ErrorText == "The AI physicist is currently offline. Please check your connection and API key."
\* a non-empty response.text of generateContent
ModelText == "Blue light scatters most along the short noon path."

\* how generateContent can end
Outcomes == {"error", "empty", "text"}

\* JavaScript a || b on strings
OrElse(a, b) == IF a = "" THEN b ELSE a

ResponseText(outcome) == IF outcome = "text" THEN ModelText ELSE ""

\* variant: the try/catch left out, so a thrown error rejects the promise
ExplainSkyPhysicsNoCatch(key, outcome) ==
  IF ~key
  THEN [status |-> "resolved", cause |-> "nokey", text |-> OfflineModeText, network |-> FALSE]
  ELSE IF outcome = "error"
  THEN [status |-> "rejected", cause |-> outcome, text |-> "", network |-> TRUE]
  ELSE [status |-> "resolved", cause |-> outcome,
        text |-> OrElse(ResponseText(outcome), EmptyText), network |-> TRUE]

\* the settled promise of explainSkyPhysics, given whether API_KEY is set and
\* how generateContent ended
ExplainSkyPhysics(key, outcome) ==
  IF ~key
  THEN [status |-> "resolved", cause |-> "nokey", text |-> OfflineModeText, network |-> FALSE]
  ELSE IF outcome = "error"
  THEN [status |-> "resolved", cause |-> outcome, text |-> ErrorText, network |-> TRUE]
  ELSE [status |-> "resolved", cause |-> outcome,
        text |-> OrElse(ResponseText(outcome), EmptyText), network |-> TRUE]

NoResult == [status |-> "none", cause |-> "none", text |-> "", network |-> FALSE]
NoAngle == "none"

(***************************************************************************)
(* App: which of the two request buttons is rendered                       *)
(***************************************************************************)
ExplainVisible == explanation = "" /\ ~isLoading
RefreshVisible == explanation # ""

(***************************************************************************)
(* Initial state: App and SkySimulation mounted, the effect has run once   *)
(***************************************************************************)
\* App and SkySimulation mounted with sun angle a on the surface, rectangle and
\* pixel ratio chosen before
Mounted(a) ==
  /\ sunAngle = a
  /\ explanation = ""
  /\ isLoading = FALSE
  /\ inflight = << >>
  /\ explanationFor = NoAngle
  /\ lastResult = NoResult
  /\ lastEvent = "mount"
  /\ view = RenderView(a)
  /\ LET e == SkyEffect(a, surface, rect, DevicePixelRatio, DefaultCanvas, NoFrame) IN
       /\ canvas = e.canvas
       /\ frame = e.frame
       /\ effectLog = e.log

Init ==
  /\ apiKey \in BOOLEAN
  /\ surface \in Surfaces
  /\ rect \in VisibleSizes
  /\ dpr \in {0, 1, 2}
  /\ Mounted(InitialAngle)

\* the components mounted with any sun angle of the extended range as their
\* input, on a usable surface
PureInit ==
  /\ apiKey \in BOOLEAN
  /\ surface = "ok"
  /\ rect \in VisibleSizes
  /\ dpr = 1
  /\ \E a \in ExtAngles : Mounted(a)

(***************************************************************************)
(* App.handleAngleChange, the re-render and the canvas effect it triggers  *)
(***************************************************************************)
HandleAngleChange(v) ==
  /\ v # sunAngle
  /\ sunAngle' = v
  /\ explanation' = (IF explanation # "" THEN "" ELSE explanation)
  /\ explanationFor' = NoAngle
  /\ view' = RenderView(v)
  /\ RunEffect(v)
  /\ lastEvent' = "angle"
  /\ UNCHANGED <<isLoading, inflight, lastResult, apiKey, surface, rect, dpr>>

(***************************************************************************)
(* App.fetchExplanation                                                    *)
(***************************************************************************)
\* lines 34-35 run only when the awaited promise resolved
Continuation(result, angle, loading) ==
  /\ explanation' = (IF result.status = "resolved" THEN result.text ELSE explanation)
  /\ explanationFor' = (IF result.status = "resolved" THEN angle ELSE explanationFor)
  /\ isLoading' = (IF result.status = "resolved" THEN FALSE ELSE loading)
  /\ lastResult' = result
  /\ lastEvent' = "settled"

\* the prompt is built only past the API_KEY test
NoPrompt == "none"

\* a click on 'Explain Current View' or 'Refresh Explanation': the handler runs
\* up to the await and returns, also when explainSkyPhysics has already
\* resolved (API_KEY missing); lines 34-35 run in a later step
FetchExplanation ==
  /\ ExplainVisible \/ RefreshVisible
  /\ Len(inflight) < MaxPending
  /\ isLoading' = TRUE
  /\ inflight' = Append(inflight,
                        [sunAngle |-> sunAngle,
                         pathLength |-> FetchPathLength(sunAngle),
                         timeOfDay |-> IF apiKey THEN TimeOfDay(sunAngle) ELSE NoPrompt])
  /\ lastEvent' = "fetch"
  /\ UNCHANGED <<explanation, explanationFor, lastResult>>
  /\ UNCHANGED <<sunAngle, apiKey, view, surface, rect, dpr, canvas, frame, effectLog>>

RemoveAt(s, i) == SubSeq(s, 1, i - 1) \o SubSeq(s, i + 1, Len(s))

\* the promise of the i-th outstanding call settles (generateContent ended
\* with outcome, or API_KEY was missing) and the continuation runs
SettleFetch(i, outcome) ==
  /\ i \in 1..Len(inflight)
  /\ Continuation(ExplainSkyPhysics(apiKey, outcome), inflight[i].sunAngle, isLoading)
  /\ inflight' = RemoveAt(inflight, i)
  /\ UNCHANGED <<sunAngle, apiKey, view, surface, rect, dpr, canvas, frame, effectLog>>

(***************************************************************************)
(* Environment of the canvas                                               *)
(***************************************************************************)
\* the viewport is resized: the bounding rectangle changes, nothing listens
Resize(r) ==
  /\ r # rect
  /\ rect' = r
  /\ lastEvent' = "resize"
  /\ UNCHANGED <<sunAngle, explanation, isLoading, inflight, explanationFor, lastResult,
                 apiKey, view, surface, dpr, canvas, frame, effectLog>>

\* the canvas or its 2D context becomes available or unavailable
SurfaceChange(s) ==
  /\ s # surface
  /\ surface' = s
  /\ lastEvent' = "surface"
  /\ UNCHANGED <<sunAngle, explanation, isLoading, inflight, explanationFor, lastResult,
                 apiKey, view, rect, dpr, canvas, frame, effectLog>>

(***************************************************************************)
(* Specifications                                                          *)
(***************************************************************************)
\* the explanation panel under slider moves
AppNext ==
  \/ \E v \in UIAngles : HandleAngleChange(v)
  \/ FetchExplanation
  \/ \E i \in 1..MaxPending, o \in Outcomes : SettleFetch(i, o)

SpecApp == Init /\ [][AppNext]_vars

\* the canvas under slider moves, resizes and surface changes
CanvasNext ==
  \/ \E v \in UIAngles : HandleAngleChange(v)
  \/ \E r \in Sizes : Resize(r)
  \/ \E s \in Surfaces : SurfaceChange(s)

SpecCanvas == Init /\ [][CanvasNext]_vars

\* every sun angle on its own: the view and the frame of the mount, and the
\* explanation requests issued for that angle
PureNext ==
  \/ FetchExplanation
  \/ \E i \in 1..MaxPending, o \in Outcomes : SettleFetch(i, o)

SpecPure == PureInit /\ [][PureNext]_vars

(***************************************************************************)
(* Properties                                                              *)
(***************************************************************************)

\* C1: at most one explanation request is outstanding, and while one is
\* outstanding neither 'Explain Current View' nor 'Refresh Explanation' is
\* rendered.
OneRequestOutstanding ==
  /\ Len(inflight) <= 1
  /\ Len(inflight) >= 1 => ~ExplainVisible /\ ~RefreshVisible

\* C2: a non-empty explanation is the result of a request issued for the
\* current sunAngle.
NoStaleExplanation ==
  explanation # "" => explanationFor = sunAngle

\* C3: when a call of explainSkyPhysics has settled, it resolved with a
\* non-empty string (the offline-mode text, without a network call, when the
\* credential is missing; the error text when the call threw; the fallback
\* when the response text was empty; the response text otherwise), and
\* fetchExplanation has set explanation to it and isLoading to false.
SettledWithText ==
  lastEvent = "settled" =>
    /\ lastResult.status = "resolved"
    /\ lastResult.text # ""
    /\ explanation = lastResult.text
    /\ isLoading = FALSE
    /\ ~apiKey => lastResult.cause = "nokey"
    /\ lastResult.cause = "nokey" =>
         lastResult.text = OfflineModeText /\ ~lastResult.network
    /\ lastResult.cause = "error" => lastResult.text = ErrorText
    /\ lastResult.cause = "empty" => lastResult.text = EmptyText
    /\ lastResult.cause = "text" => lastResult.text = ModelText

SettledWithTextWitness ==
  /\ lastEvent = "settled"
  /\ lastResult.cause = "error"
  /\ explanation = ErrorText
  /\ ~isLoading

\* C4: the last frame drawn was computed from the current sunAngle and the
\* current width and height of the surface (stated for a usable surface of
\* positive extent that the effect last ran on).
FrameIsCurrent ==
  (surface = "ok" /\ effectLog.surface = "ok" /\ rect.width > 0 /\ rect.height > 0) =>
    /\ frame.drawn
    /\ frame.angle = sunAngle
    /\ frame.width = rect.width
    /\ frame.height = rect.height

\* C5: an invocation of the effect on a surface that is missing, has no 2D
\* context or has zero width or zero height makes no drawing call.
UnusableSurfaceNoOp ==
  (effectLog.surface # "ok" \/ effectLog.width = 0 \/ effectLog.height = 0) =>
    effectLog.calls = 0

\* C6: the y coordinate of the 'Atmosphere Boundary' label of a drawn frame
\* is not above the top edge of the surface.
LabelWithinSurface ==
  frame.drawn => frame.labelY >= 0

\* C7: for every sunAngle, in or out of the slider range, the clamped angle
\* lies in [5, 90] degrees and the path-length factor is at least 1, exactly 1
\* at 90 degrees and at most 1 / sin(5 degrees), in the chart panel and in the
\* value sent with an explanation request.
PathLengthBounded ==
  /\ view.clampedAngle \in 10..180
  /\ view.pathLength >= 1000
  /\ view.pathLength <= Reciprocal(Sin(10))
  /\ sunAngle = 180 => view.pathLength = 1000
  /\ \A i \in 1..Len(inflight) :
       /\ inflight[i].pathLength >= 1000
       /\ inflight[i].pathLength <= Reciprocal(Sin(10))
       /\ inflight[i].pathLength = view.pathLength
       /\ inflight[i].sunAngle = 180 => inflight[i].pathLength = 1000

PathLengthBoundedWitness ==
  /\ sunAngle = 365
  /\ view.clampedAngle = 10
  /\ Len(inflight) > 0
  /\ inflight[1].pathLength = Reciprocal(Sin(10))

\* C8: for every sunAngle a of the slider range the folded angle of a equals
\* that of 180 - a and lies in [0, 90] degrees, and so do the path-length
\* factors of both copies.
FoldSymmetric ==
  sunAngle \in SliderAngles =>
    /\ view.effectiveAngle = EffectiveAngle(360 - sunAngle)
    /\ view.effectiveAngle \in 0..180
    /\ view.pathLength = PathLength(360 - sunAngle)
    /\ \A i \in 1..Len(inflight) :
         inflight[i].pathLength = FetchPathLength(360 - inflight[i].sunAngle)

FoldSymmetricWitness ==
  /\ sunAngle = 350
  /\ view.effectiveAngle = 10
  /\ view.pathLength = PathLength(10)
  /\ Len(inflight) > 0

\* C9: for every sunAngle of the slider range the phase label is Sunrise
\* below 20 degrees, Morning from 20 to below 70, Midday from 70 to below
\* 110, Afternoon from 110 to below 160 and Sunset from 160.
PhasePartition ==
  sunAngle \in SliderAngles =>
    /\ view.phase \in {"Sunrise", "Morning", "Midday", "Afternoon", "Sunset"}
    /\ view.phase = "Sunrise" <=> sunAngle < 40
    /\ view.phase = "Morning" <=> (40 <= sunAngle /\ sunAngle < 140)
    /\ view.phase = "Midday" <=> (140 <= sunAngle /\ sunAngle < 220)
    /\ view.phase = "Afternoon" <=> (220 <= sunAngle /\ sunAngle < 320)
    /\ view.phase = "Sunset" <=> sunAngle >= 320
    /\ sunAngle = 180 => view.phase = "Midday"
    /\ sunAngle = 10 => view.phase = "Sunrise"
    /\ sunAngle = 350 => view.phase = "Sunset"

PhasePartitionWitness ==
  /\ sunAngle = 320
  /\ view.phase = "Sunset"

\* C10: the sunset factor of a drawn frame lies in [0, 1] for every sunAngle,
\* is 0 at 90 degrees and 1 at 0 and at 180 degrees, and over the slider range
\* no angle nearer to noon has a larger factor.
SunsetFactorShape ==
  frame.drawn =>
    /\ frame.sunsetFactor >= 0
    /\ frame.sunsetFactor <= SunsetDen
    /\ frame.angle = 180 => frame.sunsetFactor = 0
    /\ frame.angle \in {0, 360} => frame.sunsetFactor = SunsetDen
    /\ frame.angle \in SliderAngles =>
         \A b \in SliderAngles :
           Abs(b - 180) <= Abs(frame.angle - 180) =>
             SunsetFactor(b) <= frame.sunsetFactor

SunsetFactorShapeWitness ==
  /\ frame.drawn
  /\ frame.angle = 270
  /\ frame.sunsetFactor = 729000

\* C11: for every sunAngle of the slider range, the time of day in the prompt
\* of a request is 'Sunrise' exactly when the phase label of that angle is
\* 'Sunrise', and 'Sunset' exactly when the phase label is 'Sunset'.
TimeOfDayAgreesWithPhase ==
  \A i \in 1..Len(inflight) :
    (inflight[i].sunAngle \in SliderAngles /\ inflight[i].timeOfDay # NoPrompt) =>
      /\ inflight[i].timeOfDay = "Sunrise" <=>
           GetPhaseLabel(inflight[i].sunAngle) = "Sunrise"
      /\ inflight[i].timeOfDay = "Sunset" <=>
           GetPhaseLabel(inflight[i].sunAngle) = "Sunset"

====
